---------------------------- MODULE Spec2Model ----------------------------
(***************************************************************************)
(* TaxCode API (src/app.js, first variant, lines 1-413): the section       *)
(* store, its loader and the search pipeline.                              *)
(*                                                                         *)
(* A JavaScript string is modelled as the sequence of its UTF-16 code      *)
(* units (naturals), so that .length, slice, indexOf, the regular          *)
(* expression classes \s \w \d \b and toLowerCase are computed as the      *)
(* engine computes them.  The alphabet of the model is ASCII, NBSP, the    *)
(* basic Cyrillic block U+0400..U+045F, the dashes U+2013/U+2014, the      *)
(* ellipsis U+2026 and the numero sign U+2116.  Positions named p, q are   *)
(* 0-based offsets as in JavaScript; TLA+ sequences are 1-based, so the    *)
(* code unit at offset p is t[p+1].                                        *)
(***************************************************************************)
EXTENDS Integers, Sequences, FiniteSets, TLC

(***************************************************************************)
(* Generic helpers                                                         *)
(***************************************************************************)
Min2(a, b) == IF a <= b THEN a ELSE b
Max2(a, b) == IF a >= b THEN a ELSE b

\* The least element of a non-empty set of integers.
SetMin(S) == CHOOSE x \in S : \A y \in S : x <= y

\* text.slice(b, e) for 0 <= b, 0 <= e (offsets clamped to the length).
Slice(t, b, e) == SubSeq(t, Min2(b, Len(t)) + 1, Min2(e, Len(t)))

\* Whether the literal w occurs in t at offset p.
At(t, p, w) ==
    /\ p >= 0
    /\ p + Len(w) <= Len(t)
    /\ \A k \in 1..Len(w) : t[p + k] = w[k]

\* String.prototype.indexOf: the least offset of needle in hay, or -1.
IndexOf(hay, needle) ==
    LET cands == {p \in 0..(Len(hay) - Len(needle)) : At(hay, p, needle)}
    IN  IF cands = {} THEN -1 ELSE SetMin(cands)

\* Array.from(new Set(list)): the first occurrence of every element, in order.
RECURSIVE UniqueSeq(_)
UniqueSeq(list) ==
    IF list = <<>> THEN <<>>
    ELSE LET front == UniqueSeq(SubSeq(list, 1, Len(list) - 1))
             last  == list[Len(list)]
         IN  IF \E k \in 1..Len(front) : front[k] = last
             THEN front ELSE Append(front, last)

(***************************************************************************)
(* Character classes of the regular-expression engine                      *)
(***************************************************************************)
\* \s (and the characters String.prototype.trim removes).
IsSpace(c) ==
    c \in {9, 10, 11, 12, 13, 32, 160, 5760, 8232, 8233, 8239, 8287, 12288, 65279}
    \/ c \in 8192..8202

\* A line terminator: what ^ with the m flag looks behind for.
IsLineTerminator(c) == c \in {10, 13, 8232, 8233}

\* \d
IsDigit(c) == c \in 48..57

\* \w of a pattern without the u flag: [A-Za-z0-9_] only.
IsWordChar(c) == c \in 48..57 \/ c \in 65..90 \/ c \in 97..122 \/ c = 95

\* \p{L} or \p{N}, within the model's alphabet.
IsLetterOrNumber(c) ==
    c \in 48..57 \/ c \in 65..90 \/ c \in 97..122 \/ c \in 1024..1119

\* toLowerCase of one code unit, within the model's alphabet.
ToLower(c) ==
    IF c \in 65..90 THEN c + 32
    ELSE IF c \in 1040..1071 THEN c + 32
    ELSE IF c \in 1024..1039 THEN c + 80
    ELSE c

\* \b at offset p of t: exactly one of the two neighbours is a \w character.
Boundary(t, p) ==
    LET before == p >= 1 /\ p <= Len(t) /\ IsWordChar(t[p])
        after  == p >= 0 /\ p < Len(t) /\ IsWordChar(t[p + 1])
    IN  before /= after

\* Whether the literal w occurs in t at offset p under the i flag.
AtNoCase(t, p, w) ==
    /\ p >= 0
    /\ p + Len(w) <= Len(t)
    /\ \A k \in 1..Len(w) : ToLower(t[p + k]) = ToLower(w[k])

\* Membership of a code unit in a class named as in a pattern: "s" is \s,
\* "w" is \w, "d" is \d, "S" is any code unit but the space U+0020.
InClass(c, cls) ==
    CASE cls = "s" -> IsSpace(c)
      [] cls = "w" -> IsWordChar(c)
      [] cls = "d" -> IsDigit(c)
      [] cls = "S" -> c /= 32

\* The offset after the longest run of characters of class cls from offset p
\* (a greedy cls* ).
RECURSIVE SkipWhile(_, _, _)
SkipWhile(t, p, cls) ==
    IF p < Len(t) /\ InClass(t[p + 1], cls) THEN SkipWhile(t, p + 1, cls) ELSE p

(***************************************************************************)
(* utils: normalize, tokenize, stemRegex, makeSnippet, bestScore,          *)
(* expandSynonyms                                                          *)
(***************************************************************************)
\* s.replace(/\s+/g, " "): every maximal run of whitespace becomes one space
\* (the first character of a run becomes the space, the others are dropped).
CollapseSpaces(t) ==
    LET marked == [i \in 1..Len(t) |->
                     IF ~IsSpace(t[i]) THEN t[i]
                     ELSE IF i > 1 /\ IsSpace(t[i - 1]) THEN -1 ELSE 32]
        Kept(c) == c >= 0
    IN  SelectSeq(marked, Kept)

\* String.prototype.trim.
Trim(t) ==
    LET b == SkipWhile(t, 0, "s")
        RECURSIVE LastKept(_)
        LastKept(e) == IF e > b /\ IsSpace(t[e]) THEN LastKept(e - 1) ELSE e
    IN  SubSeq(t, b + 1, LastKept(Len(t)))

\* s.toLowerCase(): one code unit for each code unit, except for U+0130 (capital
\* I with a dot above), whose lower case is the two code units U+0069 U+0307.
toLowerCase(s) ==
    IF \A i \in 1..Len(s) : s[i] /= 304
    THEN [i \in 1..Len(s) |-> ToLower(s[i])]
    ELSE LET units == [j \in 1..(2 * Len(s)) |->
                        IF j % 2 = 1
                        THEN (IF s[(j + 1) \div 2] = 304 THEN 105
                              ELSE ToLower(s[(j + 1) \div 2]))
                        ELSE (IF s[j \div 2] = 304 THEN 775 ELSE -1)]
             Kept(c) == c >= 0
         IN  SelectSeq(units, Kept)

\* .replace(/yo/g, "ye"): U+0451 to U+0435.
FoldYo(t) == [i \in 1..Len(t) |-> IF t[i] = 1105 THEN 1077 ELSE t[i]]

\* normalize(s): lower case, U+0451 (yo) to U+0435 (ye), whitespace runs to one
\* space, trimmed.
normalize(s) == Trim(CollapseSpaces(FoldYo(toLowerCase(s))))

\* t.split(" ").filter(Boolean): the maximal runs of code units other than 32.
RECURSIVE SplitOnSpace(_, _)
SplitOnSpace(t, p) ==
    IF p >= Len(t) THEN <<>>
    ELSE IF t[p + 1] = 32 THEN SplitOnSpace(t, p + 1)
    ELSE LET e == SkipWhile(t, p, "S")
         IN  <<Slice(t, p, e)>> \o SplitOnSpace(t, e)

\* tokenize(s): normalize, every character that is neither a letter, a number
\* nor whitespace becomes a space, split on spaces, empty pieces dropped.
CleanForTokens(n) ==
    [i \in 1..Len(n) |-> IF IsLetterOrNumber(n[i]) \/ IsSpace(n[i]) THEN n[i] ELSE 32]

tokenize(s) == SplitOnSpace(CleanForTokens(normalize(s)), 0)

\* stemRegex(word): the pattern built for one term.  A term of digits only gives
\* \b<word>\b; any other term gives \b<base>\w* with base the first 5 code
\* units of a term of 6 or more, the first 4 of a term of 4 or 5, else the
\* term.  A term produced by tokenize holds letters and digits only, so the
\* escaping of line 45 changes nothing, and NFC is the identity on the
\* model's alphabet.
stemRegex(word) ==
    IF word /= <<>> /\ \A k \in 1..Len(word) : IsDigit(word[k])
    THEN [exact |-> TRUE, base |-> word]
    ELSE [exact |-> FALSE,
          base |-> IF Len(word) >= 6 THEN SubSeq(word, 1, 5)
                   ELSE IF Len(word) >= 4 THEN SubSeq(word, 1, 4)
                   ELSE word]

\* hay.match(re).index for a pattern of stemRegex: the least offset where the
\* pattern matches, or -1.  \w* matches the empty string, so \b<base>\w*
\* matches wherever \b<base> does.
MatchIndex(hay, re) ==
    LET n == Len(re.base)
        cands == {p \in 0..(Len(hay) - n) :
                    /\ Boundary(hay, p)
                    /\ AtNoCase(hay, p, re.base)
                    /\ (re.exact => Boundary(hay, p + n))}
    IN  IF cands = {} THEN -1 ELSE SetMin(cands)

\* makeSnippet(text, start, end, pad = 160)
SnippetPad == 160

\* Lines 51-54, for the window beg..fin of lines 49-50.
SnippetOf(text, beg, fin) ==
    (IF beg > 0 THEN <<8230, 32>> ELSE <<>>)
      \o Trim(CollapseSpaces(Slice(text, beg, fin)))
      \o (IF fin < Len(text) THEN <<32, 8230>> ELSE <<>>)

makeSnippet(text, start, end) ==
    SnippetOf(text, Max2(0, start - SnippetPad), Min2(Len(text), end + SnippetPad))

\* The contribution of one matched term: Math.min(25, t.length * 2).
TermScore(t) == Min2(25, Len(t) * 2)

\* The score of the exact-phrase path: 120 + phrase.length.
\* A phrase score without the base of 120 (a variant of line 60 that C9 tells
\* apart from the code's).
PhraseScoreNoBase(phrase) == Len(phrase)

PhraseScore(phrase) == 120 + Len(phrase)

\* The token loop of bestScore (lines 62-70): the pair <<score, firstPos>>.
RECURSIVE TokenLoop(_, _, _, _, _)
TokenLoop(hay, terms, k, score, firstPos) ==
    IF k > Len(terms) THEN <<score, firstPos>>
    ELSE LET idx == MatchIndex(hay, stemRegex(terms[k]))
         IN  IF idx >= 0
             THEN TokenLoop(hay, terms, k + 1, score + TermScore(terms[k]),
                            IF firstPos < 0 THEN idx ELSE firstPos)
             ELSE TokenLoop(hay, terms, k + 1, score, firstPos)

\* Lines 71-75: the value returned after the token loop ended with loop =
\* <<score, firstPos>>.
TokenResult(hay, loop) ==
    IF loop[1] > 0
    THEN [score |-> loop[1], posStart |-> Max2(0, loop[2]),
          posEnd |-> Min2(Len(hay), Max2(0, loop[2]) + 80)]
    ELSE [score |-> 0, posStart |-> -1, posEnd |-> -1]

\* Lines 59-75, with hay and idxPhrase as lines 57-58 computed them.
ScoreOf(hay, idxPhrase, phrase, terms) ==
    IF phrase /= <<>> /\ idxPhrase >= 0
    THEN [score |-> PhraseScore(phrase), posStart |-> idxPhrase,
          posEnd |-> idxPhrase + Len(phrase)]
    ELSE TokenResult(hay, TokenLoop(hay, terms, 1, 0, -1))

\* Lines 58-75, on the normalized text.
ScoreNormalized(hay, phrase, terms) ==
    ScoreOf(hay, IF phrase /= <<>> THEN IndexOf(hay, phrase) ELSE -1, phrase, terms)

\* bestScore(hayRaw, phrase, terms)
bestScore(hayRaw, phrase, terms) == ScoreNormalized(normalize(hayRaw), phrase, terms)

\* /\b<lit>\b/.test(t)
TestWord(t, lit) ==
    \E p \in 0..(Len(t) - Len(lit)) :
        /\ Boundary(t, p)
        /\ At(t, p, lit)
        /\ Boundary(t, p + Len(lit))

\* /\b<lit>\w*\b/.test(t): after the literal, \w* may stop after any number k
\* of the \w characters that follow, provided a \b stands there.
TestStem(t, lit) ==
    \E p \in 0..(Len(t) - Len(lit)) :
        /\ Boundary(t, p)
        /\ At(t, p, lit)
        /\ \E e \in (p + Len(lit))..SkipWhile(t, p + Len(lit), "w") :
              Boundary(t, e)

\* Lines 79-85, with nq = normalize(q).  The literals are written as code
\* units, with their transliteration beside them.
Expand(q, nq) ==
    UniqueSeq(
      <<nq>>
      \o (IF \/ TestWord(nq, <<1085, 1076, 1089>>)  \* "nds"
             \/ TestWord(q, <<1053, 1044, 1057>>)  \* "NDS"
          THEN << <<1085, 1072, 1083, 1086, 1075, 32, 1085, 1072, 32, 1076, 1086, 1073,
                    1072, 1074, 1083, 1077, 1085, 1085, 1091, 1102, 32, 1089, 1090,
                    1086, 1080, 1084, 1086, 1089, 1090, 1100>> >>
                  \* "nalog na dobavlennuyu stoimost'"
          ELSE <<>>)
      \o (IF /\ TestStem(nq, <<1090, 1088, 1072, 1085, 1089, 1087, 1086, 1088, 1090>>)  \* "transport"
             /\ TestStem(nq, <<1085, 1072, 1083, 1086, 1075>>)  \* "nalog"
          THEN << <<1085, 1072, 1083, 1086, 1075, 32, 1085, 1072, 32, 1090, 1088, 1072,
                    1085, 1089, 1087, 1086, 1088, 1090, 1085, 1099, 1077, 32, 1089,
                    1088, 1077, 1076, 1089, 1090, 1074, 1072>>,
                  \* "nalog na transportnye sredstva"
                  <<1085, 1072, 1083, 1086, 1075, 1086, 1086, 1073, 1083, 1086, 1078,
                    1077, 1085, 1080, 1077, 32, 1090, 1088, 1072, 1085, 1089, 1087,
                    1086, 1088, 1090, 1085, 1099, 1093, 32, 1089, 1088, 1077, 1076,
                    1089, 1090, 1074>>,
                  \* "nalogooblozhenie transportnyh sredstv"
                  <<1085, 1072, 1083, 1086, 1075, 32, 1085, 1072, 32, 1072, 1074, 1090,
                    1086, 1084, 1086, 1073, 1080, 1083, 1080>> >>
                  \* "nalog na avtomobili"
          ELSE <<>>)
      \o (IF /\ TestStem(nq, <<1080, 1085, 1076, 1080, 1074, 1080, 1076, 1091, 1072,
                                1083, 1100>>)  \* "individual'"
             /\ TestStem(nq, <<1087, 1088, 1077, 1076, 1087, 1088, 1080, 1085, 1080,
                                1084, 1072, 1090, 1077, 1083>>)  \* "predprinimatel"
          THEN << <<1048, 1055>>,  \* "IP"
                  <<1080, 1085, 1076, 1080, 1074, 1080, 1076, 1091, 1072, 1083, 1100,
                    1085, 1099, 1077, 32, 1087, 1088, 1077, 1076, 1087, 1088, 1080,
                    1085, 1080, 1084, 1072, 1090, 1077, 1083, 1080>> >>
                  \* "individual'nye predprinimateli"
          ELSE <<>>))

\* expandSynonyms(q)
expandSynonyms(q) == Expand(q, normalize(q))

(***************************************************************************)
(* splitIntoSections                                                       *)
(***************************************************************************)
\* The structural keywords of headerRe, in the letter cases the pattern
\* lists: STAT'YA, Stat'ya, GLAVA, Glava, RAZDEL, Razdel.
HeaderKeywords ==
    { <<1057, 1058, 1040, 1058, 1068, 1071>>, <<1057, 1090, 1072, 1090, 1100, 1103>>,
      <<1043, 1051, 1040, 1042, 1040>>, <<1043, 1083, 1072, 1074, 1072>>,
      <<1056, 1040, 1047, 1044, 1045, 1051>>, <<1056, 1072, 1079, 1076, 1077, 1083>> }

\* The keywords of artRe (line 336): STAT'YA, Stat'ya.
ArticleKeywords ==
    { <<1057, 1058, 1040, 1058, 1068, 1071>>, <<1057, 1090, 1072, 1090, 1100, 1103>> }

\* [.\:\-<en dash><em dash>]
IsHeaderPunct(c) == c \in {46, 58, 45, 8211, 8212}

\* A pattern without ^: every offset would do (a variant of line 234 that C24
\* tells apart from the code's).
LineStartAnywhere(t, p) == p >= 0

\* ^ under the m flag at offset p.
LineStart(t, p) == p = 0 \/ (p <= Len(t) /\ IsLineTerminator(t[p]))

\* Whether  ^\s*(?:kw1|kw2|...)[\s ]*<number>(?:[.\:\-..])?\s  matches at
\* offset p, where <number> is \d+ when num = <<>> and the literal digits num
\* otherwise.  Every quantifier is followed by a character outside its class,
\* so the greedy choice is the only one that can succeed.
\* (?:[.\:\-..])?\s  from offset e, the end of the number.
HeaderEndAt(t, e) ==
    IF e < Len(t) /\ IsHeaderPunct(t[e + 1])
    THEN e + 1 < Len(t) /\ IsSpace(t[e + 2])
    ELSE e < Len(t) /\ IsSpace(t[e + 1])

\* \d+ from offset r, which ends at offset e, and what follows.
DigitsAt(t, r, e) == e > r /\ HeaderEndAt(t, e)

\* <number>(?:[.\:\-..])?\s  from offset r.
NumberAt(t, r, num) ==
    IF num = <<>> THEN DigitsAt(t, r, SkipWhile(t, r, "d"))
    ELSE At(t, r, num) /\ HeaderEndAt(t, r + Len(num))

\* (?:kw1|kw2|...)[\s ]*<number>...  from offset q.
KeywordAt(t, q, keywords, num) ==
    \E kw \in keywords :
        At(t, q, kw) /\ NumberAt(t, SkipWhile(t, q + Len(kw), "s"), num)

HeaderMatchAt(t, p, keywords, num) ==
    LineStart(t, p) /\ KeywordAt(t, SkipWhile(t, p, "s"), keywords, num)

\* headerRe, a lookahead: whether it matches (with zero width) at offset p.
headerRe(t, p) == HeaderMatchAt(t, p, HeaderKeywords, <<>>)

\* The offsets in lo..hi where headerRe matches, in increasing order.
RECURSIVE HeaderCuts(_, _, _)
HeaderCuts(t, lo, hi) ==
    IF lo > hi THEN <<>>
    ELSE IF lo = hi THEN (IF headerRe(t, lo) THEN <<lo>> ELSE <<>>)
    ELSE LET mid == (lo + hi) \div 2
         IN  HeaderCuts(t, lo, mid) \o HeaderCuts(t, mid + 1, hi)

\* A split that leaves out the piece after the last header (a variant of line
\* 235 that C27 tells apart from the code's).
CutAtDroppingLast(rawText, cuts) ==
    [j \in 1..Len(cuts) |->
       Slice(rawText, IF j = 1 THEN 0 ELSE cuts[j - 1], cuts[j])]

\* rawText.split(headerRe): String.prototype.split cuts at every offset
\* 1..length-1 where the zero-width pattern matches (never at offset 0, never
\* at the end); the empty text gives the one piece "".
CutAt(rawText, cuts) ==
    [j \in 1..(Len(cuts) + 1) |->
       Slice(rawText,
             IF j = 1 THEN 0 ELSE cuts[j - 1],
             IF j = Len(cuts) + 1 THEN Len(rawText) ELSE cuts[j])]

SplitAtHeaders(rawText) == CutAt(rawText, HeaderCuts(rawText, 1, Len(rawText) - 1))

\* pieces.map(s => s.trim()).filter(Boolean)
TrimAndDrop(pieces) ==
    LET NonEmpty(c) == c /= <<>>
    IN  SelectSeq([j \in 1..Len(pieces) |-> Trim(pieces[j])], NonEmpty)

\* rawText.split(headerRe).map(s => s.trim()).filter(Boolean)
Chunks(rawText) == TrimAndDrop(SplitAtHeaders(rawText))

\* The number of decimal digits of n >= 0: String(n).length.
RECURSIVE DecimalLength(_)
DecimalLength(n) == IF n < 10 THEN 1 ELSE 1 + DecimalLength(n \div 10)

RECURSIVE Pow10(_)
Pow10(k) == IF k = 0 THEN 1 ELSE 10 * Pow10(k - 1)

\* Number(`${docIndex + 1}${String(local).padStart(3, "0")}`): the decimal
\* digits of docIndex + 1 followed by those of local, the latter padded on the
\* left to three digits and never cut.
SectionId(docIndex, local) ==
    (docIndex + 1) * Pow10(Max2(3, DecimalLength(local))) + local

\* (chunk.split(/\n/, 1)[0] || "").slice(0, 200) || chunk.slice(0, 200)
TitleMax == 200

\* chunk.split(/\n/, 1)[0], with nl = the offset of the first \n or -1.
FirstLine(chunk, nl) == IF nl < 0 THEN chunk ELSE Slice(chunk, 0, nl)

TitleOr(firstLine, chunk) ==
    IF firstLine /= <<>> THEN firstLine ELSE Slice(chunk, 0, TitleMax)

TitleOf(chunk) ==
    TitleOr(Slice(FirstLine(chunk, IndexOf(chunk, <<10>>)), 0, TitleMax), chunk)

\* "Dokument (tselikom)": the title of the whole-document section.
WholeDocumentTitle ==
    <<1044, 1086, 1082, 1091, 1084, 1077, 1085, 1090, 32, 40, 1094, 1077, 1083,
      1080, 1082, 1086, 1084, 41>>

\* A whole-document section that takes the trimmed chunk as its text (a
\* variant of line 239 that C14 tells apart from the code's).
SectionsOfTrimmed(chunks, rawText, url, docIndex) ==
    IF Len(chunks) <= 1
    THEN << [id |-> docIndex + 1, title |-> WholeDocumentTitle, url |-> url,
             text |-> IF chunks = <<>> THEN <<>> ELSE chunks[1]] >>
    ELSE [k \in 1..Len(chunks) |->
            [id |-> SectionId(docIndex, k), title |-> TitleOf(chunks[k]),
             url |-> url, text |-> chunks[k]]]

\* Lines 237-254: the sections made of the chunks of line 235.
SectionsOf(chunks, rawText, url, docIndex) ==
    IF Len(chunks) <= 1
    THEN << [id |-> docIndex + 1, title |-> WholeDocumentTitle,
             url |-> url, text |-> rawText] >>
    ELSE [k \in 1..Len(chunks) |->
            [id |-> SectionId(docIndex, k), title |-> TitleOf(chunks[k]),
             url |-> url, text |-> chunks[k]]]

\* splitIntoSections(rawText, url, docIndex)
splitIntoSections(rawText, url, docIndex) ==
    SectionsOf(Chunks(rawText), rawText, url, docIndex)

(***************************************************************************)
(* Request parameters.  A JSON or query-string value that is converted     *)
(* with Number(...) is modelled by what the conversion gives: the value is *)
(* absent, a number v, or something Number() maps to NaN (a non-numeric    *)
(* string, an object).                                                     *)
(***************************************************************************)
Absent == [kind |-> "absent", v |-> 0]
NotANumber == [kind |-> "nan", v |-> 0]
Num(n) == [kind |-> "num", v |-> n]

\* Math.min and Math.max: NaN if either argument is NaN.
MathMin(a, b) ==
    IF a.kind = "nan" \/ b.kind = "nan" THEN NotANumber ELSE Num(Min2(a.v, b.v))
MathMax(a, b) ==
    IF a.kind = "nan" \/ b.kind = "nan" THEN NotANumber ELSE Num(Max2(a.v, b.v))

\* Math.max(1, Math.min(50, Number(req.body?.limit ?? 10)))
LimitMin == 1
LimitMax == 50
LimitDefault == 10

\* A limit clamped from below only (a variant of line 326 that C3 tells apart
\* from the code's).
EffectiveLimitUncapped(limit) ==
    MathMax(Num(LimitMin), IF limit.kind = "absent" THEN Num(LimitDefault) ELSE limit)

EffectiveLimit(limit) ==
    MathMax(Num(LimitMin),
            MathMin(Num(LimitMax),
                    IF limit.kind = "absent" THEN Num(LimitDefault) ELSE limit))

\* list.slice(0, n): a NaN end counts as 0.
SliceTo(list, n) ==
    IF n.kind = "nan" THEN <<>> ELSE SubSeq(list, 1, Min2(Max2(n.v, 0), Len(list)))

\* String(req.body?.query || "").trim(); query is [given, text].
NoQuery == [given |-> FALSE, text |-> <<>>]
Query(text) == [given |-> TRUE, text |-> text]
\* The query taken without trim() (a variant of line 325 that C4 tells apart
\* from the code's).
QueryTextUntrimmed(query) == IF query.given THEN query.text ELSE <<>>

QueryText(query) == IF query.given THEN Trim(query.text) ELSE <<>>

(***************************************************************************)
(* POST /search: the passes that collect candidate hits                    *)
(***************************************************************************)
\* The end of  stat'[..]\s*<numero>?\s*  matched from offset p of q, or -1:
\* "stat'", one of [soft sign, ya, i], spaces, an optional numero sign, spaces.
\* (flags iu: letters compared without regard to case.)
ArticlePrefixEnd(q, p) ==
    IF /\ AtNoCase(q, p, <<1089, 1090, 1072, 1090, 1100>>)
          /\ p + 5 < Len(q)
          /\ ToLower(q[p + 6]) \in {1100, 1103, 1080}
    THEN LET a == SkipWhile(q, p + 6, "s")
             b == IF a < Len(q) /\ q[a + 1] = 8470 THEN a + 1 ELSE a
         IN  SkipWhile(q, b, "s")
    ELSE -1

\* q.match(/stat'[..]\s*<numero>?\s*(\d{1,4})/iu): the captured digits of the
\* leftmost match, or <<>> when there is no match.
\* Whether a digit stands at offset d of q (d = -1: the prefix did not match).
DigitAt(q, d) == d >= 0 /\ d < Len(q) /\ IsDigit(q[d + 1])

\* (\d{1,4}) from offset d: at most four digits.
CapturedDigits(q, d) == Slice(q, d, Min2(d + 4, SkipWhile(q, d, "d")))

FirstArticle(q, cands) ==
    IF cands = {} THEN <<>> ELSE CapturedDigits(q, ArticlePrefixEnd(q, SetMin(cands)))

ArticleNumber(q) ==
    FirstArticle(q, {p \in 0..(Len(q) - 1) : DigitAt(q, ArticlePrefixEnd(q, p))})

\* s.text.match(artRe).index: the least offset where the article header with
\* the number num matches, or -1.
ArticleIndex(text, num) ==
    LET cands == {p \in 0..Len(text) : HeaderMatchAt(text, p, ArticleKeywords, num)}
    IN  IF cands = {} THEN -1 ELSE SetMin(cands)

PriorityScore == 999

\* Lines 332-350: the hits of the priority pass, in store order.
\* A section that a pass does not add to allHits.
NoHit(s) == [id |-> s.id, title |-> <<>>, url |-> s.url, score |-> 0, excerpt |-> <<>>]

\* The hits among the candidates of a pass.
Positive(h) == h.score > 0

\* Lines 338-348 for the section s, with pos = m.index or -1.
PriorityHit(s, num, pos) ==
    IF num /= <<>> /\ pos >= 0
    THEN [id |-> s.id, title |-> s.title, url |-> s.url, score |-> PriorityScore,
          excerpt |-> makeSnippet(s.text, pos, pos + Len(num) + 20)]
    ELSE NoHit(s)

\* Lines 334-350, with num = numMatch[1], or <<>> when numMatch is null.
PriorityPass(store, num) ==
    SelectSeq([k \in 1..Len(store) |->
                 PriorityHit(store[k], num, ArticleIndex(store[k].text, num))],
              Positive)

\* Lines 332-350: the hits of the priority pass, in store order.
PriorityHits(store, q) == PriorityPass(store, ArticleNumber(q))

\* Lines 354-367: the hits of one variant, in store order.
\* Lines 358-366 for the section s, with b the value bestScore returned.
ScoredHit(s, b) ==
    IF b.score > 0
    THEN [id |-> s.id, title |-> s.title, url |-> s.url, score |-> b.score,
          excerpt |-> makeSnippet(s.text, b.posStart, b.posEnd)]
    ELSE NoHit(s)

\* Lines 356-367, with phrase and terms as lines 354-355 computed them.
ScoredPass(store, phrase, terms) ==
    SelectSeq([k \in 1..Len(store) |->
                 ScoredHit(store[k], bestScore(store[k].text, phrase, terms))],
              Positive)

VariantHits(store, v) == ScoredPass(store, normalize(v), tokenize(v))

\* Lines 353-368: the hits of the scored pass, variant by variant.
RECURSIVE ScoredHits(_, _, _)
ScoredHits(store, variants, k) ==
    IF k > Len(variants) THEN <<>>
    ELSE VariantHits(store, variants[k]) \o ScoredHits(store, variants, k + 1)

\* (q.match(/\d+/g) || []).slice(0, 2): the first two maximal runs of digits.
RECURSIVE DigitRuns(_, _, _)
DigitRuns(q, p, left) ==
    IF left = 0 \/ p >= Len(q) THEN <<>>
    ELSE IF IsDigit(q[p + 1])
         THEN LET e == SkipWhile(q, p, "d")
              IN  <<Slice(q, p, e)>> \o DigitRuns(q, e, left - 1)
         ELSE DigitRuns(q, p + 1, left)

FallbackNums == 2
FallbackScore == 5

\* Lines 373-387: one hit for every section whose normalized text contains one
\* of the numerals, located at the first numeral that occurs.
\* Lines 377-383 for the section s and the numeral n found at offset idx.
FallbackHitAt(s, n, idx) ==
    [id |-> s.id, title |-> s.title, url |-> s.url, score |-> FallbackScore,
     excerpt |-> makeSnippet(s.text, idx, idx + Len(n))]

\* Lines 374-386 for the section s with hay = normalize(s.text), found being
\* the indices of the numerals that occur in hay: the first of them is taken.
FallbackFirst(s, hay, nums, found) ==
    IF found = {} THEN NoHit(s)
    ELSE FallbackHitAt(s, nums[SetMin(found)], IndexOf(hay, nums[SetMin(found)]))

FallbackHit(s, hay, nums) ==
    FallbackFirst(s, hay, nums, {j \in 1..Len(nums) : IndexOf(hay, nums[j]) >= 0})

FallbackPass(store, nums) ==
    SelectSeq([k \in 1..Len(store) |->
                 FallbackHit(store[k], normalize(store[k].text), nums)],
              Positive)

FallbackHits(store, q) == FallbackPass(store, DigitRuns(q, 0, FallbackNums))

\* Lines 329-388: allHits when the dedup step is reached.
\* Lines 370-388: the fallback runs when the passes before it gave no hit.
\* A fallback that runs whatever the passes before it gave (a variant of line
\* 370 that C8 tells apart from the code's).
AlwaysFallback(hits, store, q) == hits \o FallbackHits(store, q)

WithFallback(hits, store, q) ==
    IF Len(hits) = 0 THEN FallbackHits(store, q) ELSE hits

AllHits(store, q) ==
    WithFallback(PriorityHits(store, q) \o ScoredHits(store, expandSynonyms(q), 1),
                 store, q)

(***************************************************************************)
(* POST /search: dedup, sort, slice                                        *)
(***************************************************************************)
\* Lines 391-395: a Map keyed by id keeps its keys in the order of their first
\* insertion; a later hit replaces the entry of its id only with a strictly
\* greater score, and the entry keeps its place.
\* A Map that keeps the first hit of an id (a variant of lines 392-394 that C5
\* tells apart from the code's).
DedupKeepFirst(map, h) ==
    IF \E j \in 1..Len(map) : map[j].id = h.id THEN map ELSE Append(map, h)

DedupStep(map, h) ==
    LET at == {j \in 1..Len(map) : map[j].id = h.id}
    IN  IF at = {} THEN Append(map, h)
        ELSE LET j == SetMin(at)
             IN  IF h.score > map[j].score THEN [map EXCEPT ![j] = h] ELSE map

\* The loop  for (const h of allHits)  over hits[lo..hi], started with map
\* (the range is halved, and the first half is evaluated before the second
\* is entered, so that the evaluation stays shallow).
RECURSIVE Dedup(_, _, _, _)
Dedup(hits, lo, hi, map) ==
    IF lo > hi THEN map
    ELSE IF lo = hi THEN DedupStep(map, hits[lo])
    ELSE LET firstHalf == Dedup(hits, lo, (lo + hi) \div 2, map)
         IN  IF Len(firstHalf) >= 0
             THEN Dedup(hits, (lo + hi) \div 2 + 1, hi, firstHalf)
             ELSE firstHalf

\* Array.prototype.sort((a, b) => b.score - a.score): a stable sort, so a hit
\* goes after every hit of greater or equal score that precedes it.
\* A sort that puts a hit before the hits of equal score that precede it (a
\* variant of line 396 that C6 tells apart from the code's).
SortStepBeforeTies(sorted, h) ==
    LET ahead == Cardinality({j \in 1..Len(sorted) : sorted[j].score > h.score})
    IN  SubSeq(sorted, 1, ahead) \o <<h>> \o SubSeq(sorted, ahead + 1, Len(sorted))

SortStep(sorted, h) ==
    LET ahead == Cardinality({j \in 1..Len(sorted) : sorted[j].score >= h.score})
    IN  SubSeq(sorted, 1, ahead) \o <<h>> \o SubSeq(sorted, ahead + 1, Len(sorted))

RECURSIVE SortByScore(_, _, _, _)
SortByScore(hits, lo, hi, sorted) ==
    IF lo > hi THEN sorted
    ELSE IF lo = hi THEN SortStep(sorted, hits[lo])
    ELSE LET firstHalf == SortByScore(hits, lo, (lo + hi) \div 2, sorted)
         IN  IF Len(firstHalf) >= 0
             THEN SortByScore(hits, (lo + hi) \div 2 + 1, hi, firstHalf)
             ELSE firstHalf

\* Line 396: the result of a search that was not rejected.
DedupAll(allHits) == Dedup(allHits, 1, Len(allHits), <<>>)

SortAll(hits) == SortByScore(hits, 1, Len(hits), <<>>)

SearchResult(store, q, limit) == SliceTo(SortAll(DedupAll(AllHits(store, q))), limit)

\* Lines 326-398, with q as line 325 computed it.
SearchFor(store, q, limit) ==
    IF q = <<>>
    THEN [status |-> 400, error |-> "bad_request", result |-> <<>>]
    ELSE [status |-> 200, error |-> "",
          result |-> SearchResult(store, q, EffectiveLimit(limit))]

\* Lines 324-399: the response of POST /search.
SearchResponse(store, query, limit) == SearchFor(store, QueryText(query), limit)

\* Lines 317-322: the response of GET /section; Number(undefined) is NaN and
\* NaN is equal to no id.
NoSection == [id |-> 0, title |-> <<>>, url |-> 0, text |-> <<>>]

\* Lines 319-321, with id = Number(req.query.id): find gives the first section
\* with that id.
FindSection(store, id) ==
    IF \E k \in 1..Len(store) : id.kind = "num" /\ store[k].id = id.v
    THEN [status |-> 200, error |-> "",
          section |-> store[SetMin({k \in 1..Len(store) : store[k].id = id.v})]]
    ELSE [status |-> 404, error |-> "not_found", section |-> NoSection]

SectionResponse(store, idParam) ==
    FindSection(store, IF idParam.kind = "absent" THEN NotANumber ELSE idParam)

(***************************************************************************)
(* The environment: the configured sources and what a fetch of each gives. *)
(* loadOne extracts the text of the fetched page and splits it; the model  *)
(* takes the extracted text as given (extractTextHTML is a pure function   *)
(* of the page, which the environment chooses).  A source is               *)
(* [url, ok, text]: ok = FALSE is a source whose loadOne throws.           *)
(* responds = FALSE is a source whose server takes the request and never   *)
(* answers it: the fetch of lines 266-271 (node-fetch, called without a    *)
(* signal or a timeout) then never settles.                                *)
(***************************************************************************)
Page(url, text) == [url |-> url, ok |-> TRUE, text |-> text, responds |-> TRUE]
Failing(url) == [url |-> url, ok |-> FALSE, text |-> <<>>, responds |-> TRUE]
Silent(url) == [url |-> url, ok |-> FALSE, text |-> <<>>, responds |-> FALSE]

\* "Stat'ya 5. NDS 20 / Stat'ya 53. tax 153": two articles.
docArticles ==
    <<1057, 1090, 1072, 1090, 1100, 1103, 32, 53, 46, 32, 1053, 1044, 1057, 32,
      50, 48, 10, 1057, 1090, 1072, 1090, 1100, 1103, 32, 53, 51, 46, 32, 116,
      97, 120, 32, 49, 53, 51>>
\* "vat rate 53": no header.
docPlain == <<118, 97, 116, 32, 114, 97, 116, 101, 32, 53, 51>>
\* "Glava 1 code x53y / Glava 2 rate 1530": 53 only inside longer tokens.
docEmbedded ==
    <<1043, 1083, 1072, 1074, 1072, 32, 49, 32, 99, 111, 100, 101, 32, 120, 53,
      51, 121, 10, 1043, 1083, 1072, 1074, 1072, 32, 50, 32, 114, 97, 116, 101,
      32, 49, 53, 51, 48>>
\* "Razdel 1 nds / Razdel 2 1nds1 nalog na dobavlennuyu stoimost'"
docVat ==
    <<1056, 1072, 1079, 1076, 1077, 1083, 32, 49, 32, 1085, 1076, 1089, 10, 1056,
      1072, 1079, 1076, 1077, 1083, 32, 50, 32, 49, 1085, 1076, 1089, 49, 32,
      1085, 1072, 1083, 1086, 1075, 32, 1085, 1072, 32, 1076, 1086, 1073, 1072,
      1074, 1083, 1077, 1085, 1085, 1091, 1102, 32, 1089, 1090, 1086, 1080, 1084,
      1086, 1089, 1090, 1100>>

\* n copies of the line "Glava 5 tax" and a closing line "end": a document of
\* n chapters.
chapterLine == <<1043, 1083, 1072, 1074, 1072, 32, 53, 32, 116, 97, 120, 10>>

ChapterDoc(n) ==
    [i \in 1..(n * Len(chapterLine)) |-> chapterLine[((i - 1) % Len(chapterLine)) + 1]]
      \o <<101, 110, 100>>

\* SnippetPad + 1 capital I with a dot above (U+0130), then " tax rate".
docDotted ==
    [k \in 1..(SnippetPad + 1) |-> 304] \o <<32, 116, 97, 120, 32, 114, 97, 116, 101>>

\* "Stat'ya 1234. a / Stat'ya 12345. b": two articles, the number of the first
\* being the first four digits of the number of the second.
docLong ==
    <<1057, 1090, 1072, 1090, 1100, 1103, 32, 49, 50, 51, 52, 46, 32, 97, 10,
      1057, 1090, 1072, 1090, 1100, 1103, 32, 49, 50, 51, 52, 53, 46, 32, 98>>

\* The source lists the main specification starts from.
Worlds ==
    { <<Page(1, docArticles), Page(2, docPlain)>>,
      <<Page(1, docLong)>>,
      <<Page(1, docDotted)>>,
      <<Page(1, docEmbedded), Failing(2)>>,
      <<Failing(1), Page(2, docVat)>>,
      <<>> }

\* More chapters in one source than the greatest limit of a search.
ManyChunks == 52

WorldMany(n) == <<Page(1, ChapterDoc(n))>>

\* A source of BigChunks chapters followed by ten more sources.
BigChunks == 1001

WorldBig(n, last) ==
    <<Page(1, ChapterDoc(n))>>
      \o [k \in 1..9 |-> IF k % 2 = 0 THEN Failing(k + 1) ELSE Page(k + 1, docPlain)]
      \o <<last>>

LastSources ==
    {Page(11, docArticles), Page(11, docEmbedded), Page(11, docVat), Page(11, docPlain),
     Failing(11)}

\* The requests the clients send.
Queries ==
    { NoQuery,
      Query(<<>>),
      Query(<<32, 9, 32>>),
      Query(<<97, 114, 116, 105, 99, 108, 101, 32, 53, 51>>),       \* "article 53"
      Query(<<1089, 1090, 1072, 1090, 1100, 1103, 32, 53>>),        \* "stat'ya 5"
      Query(<<32, 116, 97, 120, 32, 114, 97, 116, 101>>),           \* " tax rate"
      Query(<<49, 1085, 1076, 1089, 49>>),                          \* "1nds1"
      Query(<<1089, 1090, 1072, 1090, 1100, 1103, 32, 49, 50, 51, 52, 53>>) }
                                                                    \* "stat'ya 12345"

Limits == {Absent, NotANumber, Num(0), Num(1), Num(2), Num(51)}

SectionIds == {Absent, NotANumber, Num(1002), Num(2), Num(7)}

(***************************************************************************)
(* The state of the process                                                *)
(***************************************************************************)
VARIABLES
    web,        \* the environment: the source list (ALLOWED) and its pages
    SECTIONS,   \* let SECTIONS = []
    META,       \* let META = { loaded: 0 }
    loads,      \* the invocations of loadAll that await a source
    listening,  \* whether app.listen has been called
    resp,       \* the response of the request handled last, until it is sent
                \* (nothing else runs in between: SECTIONS is then the
                \* store the handler read)
    overlap,    \* history: a loadAll started while another one was awaiting
    committed,  \* history: SECTIONS when the last loadAll returned
    arg,        \* the arguments of a call of bestScore on its own
    ret,        \* the value that call returned
    LOADED      \* let LOADED = false, of the variant that indexes local text
                \* files (part_000, lines 491-656)

vars ==
    <<web, SECTIONS, META, loads, listening, resp, overlap, committed, arg, ret, LOADED>>

\* The bound on the invocations of loadAll in flight at once.
MaxLoads == 2

Slots == 1..MaxLoads
Idle == [active |-> FALSE, boot |-> FALSE, i |-> 0]
NoResp == [op |-> "none"]
NoCall == [called |-> FALSE]

ALLOWED == [k \in 1..Len(web) |-> web[k].url]

AllIdle == \A s \in Slots : ~loads[s].active

\* The state when the module starts to run: lines 258-259.
InitStore ==
    /\ SECTIONS = <<>>
    /\ META = [loaded |-> 0]
    /\ loads = [s \in Slots |-> Idle]
    /\ listening = FALSE
    /\ resp = NoResp
    /\ overlap = FALSE
    /\ committed = <<>>
    /\ LOADED = FALSE

Init ==
    /\ web \in Worlds
    /\ InitStore
    /\ arg = NoCall
    /\ ret = NoCall

(***************************************************************************)
(* loadAll (lines 280-293), called at start-up (line 295) and by           *)
(* POST /reload (lines 401-408)                                            *)
(***************************************************************************)
\* loadAll returns: META.loaded is set; at start-up the server then starts to
\* listen, and POST /reload answers { reloaded: true, sections: META.loaded }.
LoadReturn(boot, store) ==
    /\ META' = [loaded |-> Len(store)]
    /\ committed' = store
    /\ listening' = TRUE
    /\ resp' = IF boot THEN NoResp
               ELSE [op |-> "reload", status |-> 200, sections |-> Len(store)]

\* A loadAll that does not empty the store before it loads (a variant without
\* line 281 that C17 tells apart from the code's).
LoadStartKeeping(s, boot) ==
    /\ SECTIONS' = SECTIONS
    /\ overlap' = ~AllIdle
    /\ IF Len(ALLOWED) = 0
       THEN /\ LoadReturn(boot, SECTIONS)
            /\ UNCHANGED loads
       ELSE /\ loads' = [loads EXCEPT ![s] = [active |-> TRUE, boot |-> boot, i |-> 1]]
            /\ UNCHANGED <<META, committed, listening, resp>>
    /\ UNCHANGED <<web, arg, ret, LOADED>>

\* loadAll runs from its call to its first await: the store is emptied and
\* loadOne is called for the first source.
LoadStart(s, boot) ==
    /\ SECTIONS' = <<>>
    /\ overlap' = ~AllIdle
    /\ IF Len(ALLOWED) = 0
       THEN /\ LoadReturn(boot, <<>>)
            /\ UNCHANGED loads
       ELSE /\ loads' = [loads EXCEPT ![s] = [active |-> TRUE, boot |-> boot, i |-> 1]]
            /\ UNCHANGED <<META, committed, listening, resp>>
    /\ UNCHANGED <<web, arg, ret, LOADED>>

\* await loadAll() at module level.
Boot ==
    /\ ~listening
    /\ AllIdle
    /\ resp = NoResp
    /\ LoadStart(1, TRUE)

\* POST /reload arrives.
Reload ==
    /\ listening
    /\ resp = NoResp
    /\ \E s \in Slots :
         /\ ~loads[s].active
         /\ \A r \in Slots : r < s => loads[r].active
         /\ LoadStart(s, FALSE)

\* A loadOne numbered by the count of the sources loaded before it, as if i++
\* were skipped by a failure (a variant of line 285 that C11 tells apart from
\* the code's).
loadOneCountingLoaded(src, idx) ==
    IF src.ok
    THEN splitIntoSections(src.text, src.url, Cardinality({j \in 1..idx : web[j].ok}))
    ELSE <<>>

\* loadOne(url, idx) for the source src: its sections, or <<>> when it throws.
loadOne(src, idx) ==
    IF src.ok THEN splitIntoSections(src.text, src.url, idx) ELSE <<>>

\* The loadOne awaited by invocation s settles, which takes a source that
\* answers, and the for loop of loadAll moves on: to the next source, or out.
LoadSettles(s) ==
    /\ loads[s].active
    /\ resp = NoResp
    /\ web[loads[s].i].responds
    /\ loads' = IF loads[s].i < Len(ALLOWED)
                THEN [loads EXCEPT ![s].i = loads[s].i + 1]
                ELSE [loads EXCEPT ![s] = Idle]

\* The loadOne awaited by invocation s settles: its sections are pushed (or its
\* failure is logged), and loadAll goes on to the next source or returns.
LoadResume(s) ==
    /\ LoadSettles(s)
    /\ SECTIONS' = SECTIONS \o loadOne(web[loads[s].i], loads[s].i - 1)
    /\ IF loads[s].i < Len(ALLOWED)
       THEN UNCHANGED <<META, committed, listening, resp>>
       ELSE LoadReturn(loads[s].boot, SECTIONS')
    /\ UNCHANGED <<web, overlap, arg, ret, LOADED>>

(***************************************************************************)
(* The request handlers that read the store                                *)
(***************************************************************************)
\* A POST /search that orders the store itself, as a sort in place of SECTIONS
\* would (a variant that C18 tells apart from the code's, whose sort at line
\* 396 works on a fresh array).
SearchSortingStore(query, limit) ==
    /\ listening
    /\ resp = NoResp
    /\ resp' = [op |-> "search", query |-> query, limit |-> limit,
                out |-> SearchResponse(SECTIONS, query, limit)]
    /\ SECTIONS' = [k \in 1..Len(SECTIONS) |-> SECTIONS[Len(SECTIONS) + 1 - k]]
    /\ UNCHANGED <<web, META, loads, listening, overlap, committed, arg, ret, LOADED>>

\* POST /search with the body { query, limit }.
Search(query, limit) ==
    /\ listening
    /\ resp = NoResp
    /\ resp' = [op |-> "search", query |-> query, limit |-> limit,
                out |-> SearchResponse(SECTIONS, query, limit)]
    /\ UNCHANGED <<web, SECTIONS, META, loads, listening, overlap, committed, arg, ret,
                   LOADED>>

\* GET /section?id=...
GetSection(idParam) ==
    /\ listening
    /\ resp = NoResp
    /\ resp' = [op |-> "section", id |-> idParam,
                out |-> SectionResponse(SECTIONS, idParam)]
    /\ UNCHANGED <<web, SECTIONS, META, loads, listening, overlap, committed, arg, ret,
                   LOADED>>

\* The response is sent.
Deliver ==
    /\ resp /= NoResp
    /\ resp' = NoResp
    /\ UNCHANGED <<web, SECTIONS, META, loads, listening, overlap, committed, arg, ret,
                   LOADED>>

Next ==
    \/ Boot
    \/ Reload
    \/ \E s \in Slots : LoadResume(s)
    \/ \E query \in Queries, limit \in Limits : Search(query, limit)
    \/ \E idParam \in SectionIds : GetSection(idParam)
    \/ Deliver

Spec == Init /\ [][Next]_vars

\* The same process over a source of many chapters.
InitMany ==
    /\ web = WorldMany(ManyChunks)
    /\ InitStore
    /\ arg = NoCall
    /\ ret = NoCall

SpecMany == InitMany /\ [][Next]_vars

\* The loader alone, over a long source list with one very long source.
InitBig ==
    /\ \E last \in LastSources : web = WorldBig(BigChunks, last)
    /\ InitStore
    /\ arg = NoCall
    /\ ret = NoCall

\* POST /reload arrives while no loadAll is in flight.
ReloadAlone == AllIdle /\ Reload

NextLoad ==
    \/ Boot
    \/ ReloadAlone
    \/ \E s \in Slots : LoadResume(s)
    \/ Deliver

SpecBig == InitBig /\ [][NextLoad]_vars

(***************************************************************************)
(* bestScore alone, called as POST /search calls it (lines 354-357)        *)
(***************************************************************************)
\* The queries: up to MaxTerms terms, the i-th made of one letter repeated,
\* of a length that stemRegex keeps whole, cuts to 4 or cuts to 5.
MaxTerms == 5

MaxTermLen == 13

TermLens == {2, 5, MaxTermLen}

LengthVectors == UNION {[1..n -> TermLens] : n \in 1..MaxTerms}

Word(i, len) == [k \in 1..len |-> 96 + i]

RECURSIVE JoinWords(_, _)
JoinWords(words, k) ==
    IF k > Len(words) THEN <<>>
    ELSE IF k = Len(words) THEN words[k]
    ELSE words[k] \o <<32>> \o JoinWords(words, k + 1)

QueryOf(lens) == JoinWords([i \in 1..Len(lens) |-> Word(i, lens[i])], 1)

\* A text that holds the stem of every term, last term first.
StemsText(lens) ==
    JoinWords([i \in 1..Len(lens) |->
                 stemRegex(Word(Len(lens) + 1 - i, lens[Len(lens) + 1 - i])).base], 1)

\* The texts a query is scored against: one that holds the phrase, one that
\* holds the stems only, one that holds neither.
Texts(lens) == {<<90>> \o QueryOf(lens) \o <<33>>, StemsText(lens), <<122, 122>>}

\* const phrase = normalize(v); const terms = tokenize(v);
\* const { score, posStart, posEnd } = bestScore(s.text, phrase, terms);
ScoreCall(v, text) ==
    /\ ~arg.called
    /\ arg' = [called |-> TRUE, v |-> v, text |-> text]
    /\ ret' = [called |-> TRUE, out |-> bestScore(text, normalize(v), tokenize(v))]
    /\ UNCHANGED <<web, SECTIONS, META, loads, listening, resp, overlap, committed,
                   LOADED>>

\* The caller has used the value.
ScoreReturn ==
    /\ arg.called
    /\ arg' = NoCall
    /\ ret' = NoCall
    /\ UNCHANGED <<web, SECTIONS, META, loads, listening, resp, overlap, committed,
                   LOADED>>

InitScore ==
    /\ web = <<>>
    /\ InitStore
    /\ arg = NoCall
    /\ ret = NoCall

NextScore ==
    \/ \E lens \in LengthVectors : \E text \in Texts(lens) : ScoreCall(QueryOf(lens), text)
    \/ ScoreReturn

SpecScore == InitScore /\ [][NextScore]_vars

(***************************************************************************)
(* bestScore over Latin and Cyrillic words that stand whole in the text    *)
(***************************************************************************)
\* The words of the queries: "tax", "rate", "income", and in Cyrillic "ip",
\* "nds", "nalog", "stavka".
WordTerms ==
    { <<116, 97, 120>>, <<114, 97, 116, 101>>, <<105, 110, 99, 111, 109, 101>>,
      <<1080, 1087>>, <<1085, 1076, 1089>>, <<1085, 1072, 1083, 1086, 1075>>,
      <<1089, 1090, 1072, 1074, 1082, 1072>> }

\* The section texts for the query "a b": the two words in the other order,
\* a alone, a between other words and blanks, a after a line feed and a tab,
\* and a text without either word.
WordTexts(a, b) ==
    { b \o <<32>> \o a,
      a,
      <<122, 122, 32, 32>> \o a \o <<32, 122>>,
      <<55, 10, 9>> \o a,
      <<122, 122>> }

\* const variants = expandSynonyms(q), line 328.
ExpandCall(q) ==
    /\ ~arg.called
    /\ arg' = [called |-> TRUE, q |-> q]
    /\ ret' = [called |-> TRUE, out |-> expandSynonyms(q)]
    /\ UNCHANGED <<web, SECTIONS, META, loads, listening, resp, overlap, committed,
                   LOADED>>

\* The queries expanded: a word alone, two words, a word between digits, and
\* a word in upper case after "rate".
NextWord ==
    \/ \E a, b \in WordTerms : \E text \in WordTexts(a, b) :
          a /= b /\ ScoreCall(a \o <<32>> \o b, text)
    \/ \E a, b \in WordTerms :
          \E q \in {a, a \o <<32>> \o b, <<49>> \o a \o <<49>>,
                    <<82, 97, 116, 101, 32>> \o [k \in 1..Len(a) |-> a[k] - 32]} :
             ExpandCall(q)
    \/ ScoreReturn

SpecWord == InitScore /\ [][NextWord]_vars

(***************************************************************************)
(* The variant that indexes the text files of data/ (part_000, 491-656)    *)
(*                                                                         *)
(* Here web is the directory: [readable, files], files being the texts of  *)
(* the *.txt files in name order; readable = FALSE is a directory whose    *)
(* reading throws.  The files of the model hold one line each and no       *)
(* header.                                                                 *)
(***************************************************************************)
\* The bound on the number of files in data/.
MaxFiles == 2

DataDirs ==
    {[readable |-> FALSE, files |-> <<>>]}
      \cup {[readable |-> TRUE, files |-> f] :
              f \in UNION {[1..n -> {<<>>, <<120>>, <<121, 32, 122, 13>>}] : n \in 0..MaxFiles}}

\* loadAllTxt(): the files joined by an empty line, then norm (line 512: \r
\* removed, U+00A0 made a space, trimmed).
loadAllTxt(files) ==
    LET RECURSIVE Join(_, _)
        Join(big, k) ==
            IF k > Len(files) THEN big
            ELSE Join(big \o (IF big /= <<>> THEN <<10, 10>> ELSE <<>>) \o files[k], k + 1)
        NotCR(c) == c /= 13
        NoCR(t) == SelectSeq(t, NotCR)
        Spaced(t) == [i \in 1..Len(t) |-> IF t[i] = 160 THEN 32 ELSE t[i]]
    IN  Trim(Spaced(NoCR(Join(<<>>, 1))))

\* splitIntoSections(bigText) of the variant (lines 526-557), for a text
\* without header, tab or run of spaces, whose lines have no outer space: no
\* section for the empty text, else one section, titled by the first line,
\* whose text is the other non-empty lines joined by \n, or the title when
\* there is none.
splitIntoSectionsTxt(bigText) ==
    LET NotDropped(c) == c >= 0
        Body(rest) ==
            Trim(SelectSeq([i \in 1..Len(rest) |->
                              IF rest[i] = 10 /\ i > 1 /\ rest[i - 1] = 10
                              THEN -1 ELSE rest[i]],
                           NotDropped))
    IN  IF bigText = <<>> THEN <<>>
        ELSE IF IndexOf(bigText, <<10>>) < 0
        THEN << [id |-> 1, title |-> bigText, text |-> bigText] >>
        ELSE << [id |-> 1, title |-> Slice(bigText, 0, IndexOf(bigText, <<10>>)),
                 text |-> Body(Slice(bigText, IndexOf(bigText, <<10>>), Len(bigText)))] >>

\* loadIndex() (lines 597-608): it has no await, so it runs as one step.
loadIndex ==
    /\ SECTIONS' = IF web.readable THEN splitIntoSectionsTxt(loadAllTxt(web.files))
                   ELSE <<>>
    /\ LOADED' = (web.readable /\ Len(SECTIONS') > 0)

\* app.listen(PORT, async () => { ...; await loadIndex(); })
ListenTxt ==
    /\ ~listening
    /\ listening' = TRUE
    /\ loadIndex
    /\ UNCHANGED <<web, META, loads, resp, overlap, committed, arg, ret>>

\* GET /reload
ReloadTxt ==
    /\ listening
    /\ resp = NoResp
    /\ loadIndex
    /\ resp' = [op |-> "reload", reloaded |-> TRUE, sections |-> Len(SECTIONS')]
    /\ UNCHANGED <<web, META, loads, listening, overlap, committed, arg, ret>>

\* GET /health
HealthTxt ==
    /\ listening
    /\ resp = NoResp
    /\ resp' = [op |-> "health", status |-> IF LOADED THEN "ok" ELSE "loading",
                sections |-> Len(SECTIONS)]
    /\ UNCHANGED <<web, SECTIONS, META, loads, listening, overlap, committed, arg, ret,
                   LOADED>>

\* The files of data/ are changed from outside the process.
ChangeData(dir) ==
    /\ resp = NoResp
    /\ web /= dir
    /\ web' = dir
    /\ UNCHANGED <<SECTIONS, META, loads, listening, resp, overlap, committed, arg, ret,
                   LOADED>>

InitTxt ==
    /\ web \in DataDirs
    /\ InitStore
    /\ arg = NoCall
    /\ ret = NoCall

NextTxt ==
    \/ ListenTxt
    \/ ReloadTxt
    \/ HealthTxt
    \/ \E dir \in DataDirs : ChangeData(dir)
    \/ Deliver

SpecTxt == InitTxt /\ [][NextTxt]_vars

(***************************************************************************)
(* A source is taken out of sources.json.  ALLOWED is read once, when the  *)
(* module starts (lines 29-31), so the process is started again: it begins *)
(* from lines 258-259 and loads the sources that are left.                 *)
(***************************************************************************)
\* The bound on the sources of the lists that sources are removed from.
MaxSources == 3

RemoveSource(k) ==
    /\ listening
    /\ AllIdle
    /\ resp = NoResp
    /\ k \in 1..Len(web)
    /\ web' = SubSeq(web, 1, k - 1) \o SubSeq(web, k + 1, Len(web))
    /\ SECTIONS' = <<>>
    /\ META' = [loaded |-> 0]
    /\ listening' = FALSE
    /\ overlap' = FALSE
    /\ UNCHANGED <<loads, resp, committed, arg, ret, LOADED>>

\* Every list of MaxSources sources, each with a url of its own.
InitConfig ==
    /\ \E texts \in [1..MaxSources -> {docArticles, docPlain, docVat, <<>>}],
          failing \in SUBSET (1..MaxSources) :
          web = [k \in 1..MaxSources |->
                   IF k \in failing THEN Failing(k) ELSE Page(k, texts[k])]
    /\ InitStore
    /\ arg = NoCall
    /\ ret = NoCall

NextConfig ==
    \/ Boot
    \/ \E s \in Slots : LoadResume(s)
    \/ \E k \in 1..MaxSources : RemoveSource(k)

SpecConfig == InitConfig /\ [][NextConfig]_vars

(***************************************************************************)
(* The loader when a source stops answering.  The continuation of an await *)
(* runs once its promise has settled, and a response that is ready is      *)
(* sent: weak fairness of LoadSettles, Boot and Deliver.                   *)
(***************************************************************************)
\* The server of source k stops answering.
GoSilent(k) ==
    /\ k \in 1..Len(web)
    /\ web[k].responds
    /\ web' = [web EXCEPT ![k] = Silent(web[k].url)]
    /\ UNCHANGED <<SECTIONS, META, loads, listening, resp, overlap, committed, arg, ret,
                   LOADED>>

NextHang ==
    \/ NextLoad
    \/ \E k \in 1..MaxSources : GoSilent(k)

SpecHang ==
    /\ InitConfig
    /\ [][NextHang]_vars
    /\ \A s \in Slots : WF_loads(LoadSettles(s))
    /\ WF_vars(Boot)
    /\ WF_vars(Deliver)

(***************************************************************************)
(* splitIntoSections alone, called as loadOne calls it (line 277)          *)
(***************************************************************************)
\* The texts: up to MaxPieces pieces, each one of "Glava", a space, "5", a
\* line feed, "x".
MaxPieces == 5

SplitTexts ==
    LET pieces == {<<1043, 1083, 1072, 1074, 1072>>, <<32>>, <<53>>, <<10>>, <<120>>}
        RECURSIVE Cat(_, _)
        Cat(v, k) == IF k > Len(v) THEN <<>> ELSE v[k] \o Cat(v, k + 1)
    IN  {Cat(v, 1) : v \in UNION {[1..n -> pieces] : n \in 0..MaxPieces}}

\* return splitIntoSections(text, url, idx);
SplitCall(rawText, url, docIndex) ==
    /\ ~arg.called
    /\ arg' = [called |-> TRUE, rawText |-> rawText, url |-> url, docIndex |-> docIndex]
    /\ ret' = [called |-> TRUE, out |-> splitIntoSections(rawText, url, docIndex)]
    /\ UNCHANGED <<web, SECTIONS, META, loads, listening, resp, overlap, committed,
                   LOADED>>

\* The texts as they are, with the keyword in lower case ("glava"), and
\* followed by "x Glava5 / Glava5 x": a keyword in the middle of a line, then a
\* header on a line of its own.
NextSplit ==
    \/ /\ ~arg.called
       /\ \E rawText \in SplitTexts, docIndex \in {0, 2} : SplitCall(rawText, 7, docIndex)
    \/ /\ ~arg.called
       /\ \E rawText \in SplitTexts :
             SplitCall([k \in 1..Len(rawText) |-> ToLower(rawText[k])], 7, 0)
    \/ /\ ~arg.called
       /\ \E rawText \in SplitTexts :
             SplitCall(rawText \o <<120, 32, 1043, 1083, 1072, 1074, 1072, 53, 32, 10,
                                    1043, 1083, 1072, 1074, 1072, 53, 32, 120>>, 7, 0)
    \/ ScoreReturn

SpecSplit == InitScore /\ [][NextSplit]_vars

(***************************************************************************)
(* The store one run of loadAll alone leaves (lines 281-292)               *)
(***************************************************************************)
RECURSIVE loadAllFrom(_, _)
loadAllFrom(sources, i) ==
    IF i > Len(sources) THEN <<>>
    ELSE loadOne(sources[i], i - 1) \o loadAllFrom(sources, i + 1)

loadAll(sources) == loadAllFrom(sources, 1)

(***************************************************************************)
(* Properties                                                              *)
(***************************************************************************)
\* C1: a getSection request or a search that is not rejected, served at any
\* point of any interleaving with reloads, reads a store equal to a complete collection, the one the last
\* completed load left or the one a whole load of the sources gives; never an
\* emptied or partly filled store.
C1_RequestsSeeCompleteStore ==
    (resp.op = "section" \/ (resp.op = "search" /\ resp.out.status = 200)) =>
        (SECTIONS = committed \/ SECTIONS = loadAll(web))

\* C2: after one complete reload that overlapped no other, no two sections of
\* the store have the same id, whatever the number of sources and of sections
\* per source.
C2_IdsUniqueAfterReload ==
    (listening /\ AllIdle /\ ~overlap) =>
        Cardinality({SECTIONS[k].id : k \in 1..Len(SECTIONS)}) = Len(SECTIONS)

\* C3: a search with a non-empty query and an integer limit >= 1 returns at
\* most min(limit, 50) hits, however many sections match.
C3_AtMostLimitHits ==
    (resp.op = "search" /\ resp.out.status = 200
       /\ resp.limit.kind = "num" /\ resp.limit.v >= 1) =>
        Len(resp.out.result) <= Min2(resp.limit.v, 50)

\* More than 50 sections match, the limit asked is above 50, and 50 hits are
\* returned.
C3_Witness ==
    /\ resp.op = "search"
    /\ resp.limit.kind = "num"
    /\ resp.limit.v > 50
    /\ Len(SECTIONS) > 50
    /\ Len(AllHits(SECTIONS, QueryText(resp.query))) > 50
    /\ Len(resp.out.result) = 50

\* C4: a search whose query is missing, empty or made of white space only is
\* rejected with bad_request and no hits, whatever the limit.
C4_EmptyQueryRejected ==
    (resp.op = "search"
       /\ (~resp.query.given
             \/ \A k \in 1..Len(resp.query.text) : IsSpace(resp.query.text[k]))) =>
        /\ resp.out.status = 400
        /\ resp.out.error = "bad_request"
        /\ resp.out.result = <<>>

\* A query of white space only, with a limit that is not a number, is rejected
\* while the store holds sections.
C4_Witness ==
    /\ resp.op = "search"
    /\ resp.query.given
    /\ Len(resp.query.text) > 0
    /\ \A k \in 1..Len(resp.query.text) : IsSpace(resp.query.text[k])
    /\ resp.limit = NotANumber
    /\ Len(SECTIONS) > 0
    /\ resp.out.error = "bad_request"

\* C5: in a search result every section id appears at most once, and its score
\* is the greatest score among the candidate hits collected for that section
\* over the priority pass and all query variants.
C5_DedupKeepsMaximum ==
    (resp.op = "search" /\ resp.out.status = 200) =>
        LET result == resp.out.result
            allHits == AllHits(SECTIONS, QueryText(resp.query))
        IN  /\ \A i, j \in 1..Len(result) : result[i].id = result[j].id => i = j
            /\ \A i \in 1..Len(result) :
                 /\ \E k \in 1..Len(allHits) :
                      allHits[k].id = result[i].id /\ allHits[k].score = result[i].score
                 /\ \A k \in 1..Len(allHits) :
                      allHits[k].id = result[i].id => allHits[k].score <= result[i].score

\* A section was collected twice, the later time with the greater score, and
\* the result reports the greater score.
C5_Witness ==
    /\ resp.op = "search"
    /\ resp.out.status = 200
    /\ LET result == resp.out.result
           allHits == AllHits(SECTIONS, QueryText(resp.query))
       IN  \E i, j \in 1..Len(allHits) :
             /\ i < j
             /\ allHits[i].id = allHits[j].id
             /\ allHits[i].score < allHits[j].score
             /\ \E r \in 1..Len(result) :
                  result[r].id = allHits[j].id /\ result[r].score = allHits[j].score

\* C6: a search result is ordered by non-increasing score, and two hits of
\* equal score stand in the order in which their sections were first collected
\* as candidates.
C6_SortedByScoreStable ==
    (resp.op = "search" /\ resp.out.status = 200) =>
        LET result == resp.out.result
            allHits == AllHits(SECTIONS, QueryText(resp.query))
            First(id) == SetMin({k \in 1..Len(allHits) : allHits[k].id = id})
        IN  \A i, j \in 1..Len(result) :
              i < j =>
                /\ result[i].score >= result[j].score
                /\ (result[i].score = result[j].score =>
                      First(result[i].id) < First(result[j].id))

\* A result holds two hits of equal score for two different sections.
C6_Witness ==
    /\ resp.op = "search"
    /\ resp.out.status = 200
    /\ \E i, j \in 1..Len(resp.out.result) :
         /\ i < j
         /\ resp.out.result[i].id /= resp.out.result[j].id
         /\ resp.out.result[i].score = resp.out.result[j].score

\* C7: for the query "article 53", whose word matches no section, every section
\* whose text holds the literal 53 is returned with score exactly 5 (the limit
\* left at its default, which no store of the model exceeds).
C7_NumeralHitScoresFive ==
    (resp.op = "search"
       /\ resp.query = Query(<<97, 114, 116, 105, 99, 108, 101, 32, 53, 51>>)
       /\ resp.limit = Absent
       /\ \A k \in 1..Len(SECTIONS) :
            IndexOf(normalize(SECTIONS[k].text), <<97, 114, 116, 105, 99, 108, 101>>) < 0) =>
        \A k \in 1..Len(SECTIONS) :
            IndexOf(SECTIONS[k].text, <<53, 51>>) >= 0 =>
                \E i \in 1..Len(resp.out.result) :
                    /\ resp.out.result[i].id = SECTIONS[k].id
                    /\ resp.out.result[i].score = FallbackScore

\* C8: a result that holds a hit of score 5 holds only hits of score 5, and
\* the priority pass and the scored pass gave no candidate for it: the
\* fallback ran only because the passes before it found nothing.
C8_FallbackOnlyWhenNoHit ==
    (resp.op = "search" /\ resp.out.status = 200) =>
        ((\E i \in 1..Len(resp.out.result) : resp.out.result[i].score = FallbackScore) =>
            /\ \A j \in 1..Len(resp.out.result) : resp.out.result[j].score = FallbackScore
            /\ PriorityHits(SECTIONS, QueryText(resp.query)) = <<>>
            /\ ScoredHits(SECTIONS, expandSynonyms(QueryText(resp.query)), 1) = <<>>)

\* The fallback gave a result of two hits.
C8_Witness ==
    /\ resp.op = "search"
    /\ resp.out.status = 200
    /\ Len(resp.out.result) >= 2
    /\ \E i \in 1..Len(resp.out.result) : resp.out.result[i].score = FallbackScore
    /\ FallbackHits(SECTIONS, QueryText(resp.query)) /= <<>>

\* C9: for a query of at most 5 terms, bestScore returns 120 + the phrase
\* length when the text holds the phrase, which is more than the sum of
\* min(25, 2 * length) over all the terms, hence more than whatever it returns
\* for a text that holds terms but not the phrase.
C9_PhraseOutranksTokens ==
    (arg.called /\ Len(tokenize(arg.v)) <= 5) =>
        LET phrase == normalize(arg.v)
            terms == tokenize(arg.v)
            sum == TokenLoop(JoinWords(terms, 1), terms, 1, 0, -1)[1]
        IN  /\ PhraseScore(phrase) = 120 + Len(phrase)
            /\ sum < PhraseScore(phrase)
            /\ IF IndexOf(normalize(arg.text), phrase) >= 0
               THEN ret.out.score = PhraseScore(phrase)
               ELSE ret.out.score <= sum

\* Five terms at the cap of 25 each are all found in a text without the
\* phrase: the token path returns 125.
C9_Witness ==
    /\ arg.called
    /\ Len(tokenize(arg.v)) = 5
    /\ IndexOf(normalize(arg.text), normalize(arg.v)) < 0
    /\ ret.out.score = 125

\* C10: getSection with a missing or non-numeric id is answered bad_request,
\* and not_found answers only an id that is a number.
C10_BadIdIsBadRequest ==
    resp.op = "section" =>
        /\ (resp.id.kind \in {"absent", "nan"} => resp.out.error = "bad_request")
        /\ (resp.out.error = "not_found" => resp.id.kind = "num")

\* C11: after a load that overlapped no other, whatever sources failed, the
\* reload is answered without error, a failed source has no section in the
\* store, and every other source has exactly the sections (ids included, in
\* their order, sources in list order) that its text, url and position give.
C11_FailedSourcesIsolated ==
    (listening /\ AllIdle /\ ~overlap) =>
        /\ (resp.op = "reload" => resp.status = 200 /\ resp.sections = Len(SECTIONS))
        /\ \A i \in 1..Len(web) :
             LET FromSource(x) == x.url = web[i].url
             IN  SelectSeq(SECTIONS, FromSource) =
                   IF web[i].ok
                   THEN splitIntoSections(web[i].text, web[i].url, i - 1)
                   ELSE <<>>
        /\ \A i, j \in 1..Len(web) : \A a, b \in 1..Len(SECTIONS) :
             (i < j /\ SECTIONS[a].url = web[i].url /\ SECTIONS[b].url = web[j].url)
                => a < b

\* A reload is answered over a source list whose first source fails and whose
\* later source gave sections.
C11_Witness ==
    /\ resp.op = "reload"
    /\ AllIdle
    /\ ~overlap
    /\ Len(SECTIONS) > 0
    /\ \E i, j \in 1..Len(web) : i < j /\ ~web[i].ok /\ web[j].ok

\* C12: once a load has left the store loaded, the status that GET /health
\* reports ("ok" when LOADED, else "loading") stays "ok" through every later
\* reload, also through one that finds no section or fails.
C12_StatusStaysReady == [][LOADED => LOADED']_vars

\* C13: when the load that follows the removal of a source completes (the
\* store before it, committed, was not empty), the store has at most as many
\* sections as before, and no id of a section of the removed source (a section
\* of the old store whose url is no longer in the list) is in the new store.
C13_RemovedSourceIdsAbsent ==
    [][(~listening /\ listening' /\ committed /= <<>>) =>
          /\ Len(SECTIONS') <= Len(committed)
          /\ \A a \in 1..Len(committed) : \A b \in 1..Len(SECTIONS') :
               (\A k \in 1..Len(web) : web[k].url /= committed[a].url)
                  => SECTIONS'[b].id /= committed[a].id]_vars

\* C14: for a text in which headerRe matches nowhere (the empty text too),
\* splitIntoSections returns exactly one section, whose text is the whole
\* input text and whose url is the url given.
C14_NoHeaderOneSection ==
    (arg.called /\ \A p \in 0..Len(arg.rawText) : ~headerRe(arg.rawText, p)) =>
        /\ Len(ret.out) = 1
        /\ ret.out[1].text = arg.rawText
        /\ ret.out[1].url = arg.url

\* A text that begins with a space and holds a keyword, yet no header, came
\* back as one section.
C14_Witness ==
    /\ arg.called
    /\ Len(arg.rawText) > 1
    /\ arg.rawText[1] = 32
    /\ IndexOf(arg.rawText, <<1043, 1083, 1072, 1074, 1072>>) >= 0
    /\ \A p \in 0..Len(arg.rawText) : ~headerRe(arg.rawText, p)
    /\ Len(ret.out) = 1

\* C15: the k-th section that splitIntoSections emits for the source of index
\* i (a source that gave more than one chunk) has id (i + 1) * 1000 + k,
\* for every k, 1000 and more included.  (i + 1 is the position of the source
\* in the list; the loads of this specification never overlap, so the
\* sections of a source are together in the store, in order.)
C15_IdIsThousandsPlusOrdinal ==
    \A n \in 1..Len(SECTIONS) : \A i \in 1..Len(web) :
        (~overlap /\ web[i].url = SECTIONS[n].url /\ SECTIONS[n].title /= WholeDocumentTitle) =>
            SECTIONS[n].id =
                i * 1000 + Cardinality({m \in 1..n : SECTIONS[m].url = SECTIONS[n].url})

\* C16: a search whose limit is absent or is not a valid number answers as a
\* search with limit 10 does: with the first 10 hits of the sorted list (so
\* with at least one hit and at most 10 when a section matches).
C16_InvalidLimitMeansTen ==
    (resp.op = "search" /\ resp.out.status = 200 /\ resp.limit.kind \in {"absent", "nan"}) =>
        resp.out.result = SearchResult(SECTIONS, QueryText(resp.query), Num(LimitDefault))

\* C17: with the sources unchanged, when a reload that overlapped no other
\* load returns, the store is the store the load before it left (committed):
\* the same sections with the same ids, titles, urls and texts in the same
\* order, and the same count.  (No load of this specification overlaps
\* another.)
C17_ReloadIdempotent ==
    [][(resp.op = "none" /\ resp'.op = "reload") =>
          /\ SECTIONS' = committed
          /\ META'.loaded = Len(committed)
          /\ resp'.sections = Len(committed)]_vars

\* A reload that overlapped no load has returned, after the load at start, and
\* its store holds sections of more than one source.
C17_Witness ==
    /\ resp.op = "reload"
    /\ ~overlap
    /\ \E a, b \in 1..Len(SECTIONS) : SECTIONS[a].url /= SECTIONS[b].url

\* C18: a POST /search, answered with 200 or rejected with 400, leaves the
\* store (the sections, their order, their fields) and META.loaded as they
\* were, whether or not a load is in flight.
C18_SearchReadsOnly ==
    [][(resp.op = "none" /\ resp'.op = "search") =>
          /\ SECTIONS' = SECTIONS
          /\ META' = META]_vars

\* A search has been answered with hits over a store of several sections.
C18_Witness ==
    /\ resp.op = "search"
    /\ resp.out.status = 200
    /\ Len(resp.out.result) > 0
    /\ Len(SECTIONS) > 1
    /\ META.loaded > 0

\* C19: every loadAll that has started returns (the store is published with
\* META.loaded, the server listens and a reload is answered), even when a
\* source never answers.
C19_LoadAllReturns == (~AllIdle) ~> (AllIdle /\ listening)

\* C20: once two overlapping reloads (the second started while the first was
\* awaiting a source) have both returned, no two sections of the store have
\* the same id and the store is the one a single reload gives.
C20_OverlappingReloadsAsOne ==
    (listening /\ AllIdle /\ overlap) =>
        /\ Cardinality({SECTIONS[k].id : k \in 1..Len(SECTIONS)}) = Len(SECTIONS)
        /\ SECTIONS = loadAll(web)

\* C21: when bestScore takes the token path (the normalized text does not
\* hold the phrase), every term of letters, Latin or Cyrillic, that stands in
\* the normalized text as a whole word, between spaces or the ends of the
\* text, is matched: the score is at least the sum of min(25, 2 * length)
\* over those terms.
C21_WholeWordTermsCounted ==
    (arg.called /\ "text" \in DOMAIN arg
       /\ IndexOf(normalize(arg.text), normalize(arg.v)) < 0) =>
        LET hay == normalize(arg.text)
            terms == tokenize(arg.v)
            Letters(t) == \A k \in 1..Len(t) : IsLetterOrNumber(t[k]) /\ ~IsDigit(t[k])
            WholeAt(t, p) ==
                /\ Slice(hay, p, p + Len(t)) = t
                /\ (p = 0 \/ hay[p] = 32)
                /\ (p + Len(t) = Len(hay) \/ hay[p + Len(t) + 1] = 32)
            Whole(t) == \E p \in 0..(Len(hay) - Len(t)) : WholeAt(t, p)
            RECURSIVE Owed(_)
            Owed(k) ==
                IF k > Len(terms) THEN 0
                ELSE Owed(k + 1)
                       + (IF Letters(terms[k]) /\ Whole(terms[k])
                          THEN Min2(25, 2 * Len(terms[k])) ELSE 0)
        IN  ret.out.score >= Owed(1)

\* C22: when the normalized query holds "nds" (in Cyrillic) as a word of its
\* own, between spaces or the ends of the query, expandSynonyms returns the
\* normalized query first and "nalog na dobavlennuyu stoimost'" with it.
C22_VatSynonymAdded ==
    LET nds == <<1085, 1076, 1089>>
        nq == normalize(arg.q)
        WholeAt(p) ==
            /\ Slice(nq, p, p + 3) = nds
            /\ (p = 0 \/ nq[p] = 32)
            /\ (p + 3 = Len(nq) \/ nq[p + 4] = 32)
    IN  (arg.called /\ "q" \in DOMAIN arg /\ \E p \in 0..(Len(nq) - 3) : WholeAt(p)) =>
            /\ ret.out[1] = nq
            /\ \E k \in 1..Len(ret.out) :
                  ret.out[k] = <<1085, 1072, 1083, 1086, 1075, 32, 1085, 1072, 32, 1076,
                                 1086, 1073, 1072, 1074, 1083, 1077, 1085, 1085, 1091,
                                 1102, 32, 1089, 1090, 1086, 1080, 1084, 1086, 1089,
                                 1090, 1100>>

\* C23: a line of the input that begins (after blanks) with a structural
\* keyword in any letter case, followed by a numeral as headerRe asks, and
\* that has text before it, starts a new section: splitIntoSections returns
\* more than one section and one of them begins with that header.
C23_HeaderInAnyCase ==
    LET Lower(t) == [k \in 1..Len(t) |-> ToLower(t[k])]
        low == Lower(arg.rawText)
        lowKeywords == {Lower(kw) : kw \in HeaderKeywords}
        HeaderAt(p) ==
            /\ HeaderMatchAt(low, p, lowKeywords, <<>>)
            /\ \E k \in 1..p : ~IsSpace(arg.rawText[k])
        BeginsAt(text, p) ==
            Slice(arg.rawText, SkipWhile(arg.rawText, p, "s"),
                  SkipWhile(arg.rawText, p, "s") + Len(text)) = text
    IN  (arg.called /\ "rawText" \in DOMAIN arg) =>
            \A p \in 1..Len(arg.rawText) :
                HeaderAt(p) =>
                    /\ Len(ret.out) > 1
                    /\ \E k \in 2..Len(ret.out) : BeginsAt(ret.out[k].text, p)

\* C24: every section after the first begins, in the input text, on a line
\* (the text start, or what follows a line feed) that holds only blanks before
\* it: a keyword with its numeral that has other
\* text before it on its line never starts a section.  (The sections are
\* located in the input one after the other, blanks skipped between them.)
C24_SectionsStartOnOwnLine ==
    LET t == arg.rawText
        out == ret.out
        RECURSIVE EndOf(_)
        EndOf(k) ==
            IF k = 0 THEN 0 ELSE SkipWhile(t, EndOf(k - 1), "s") + Len(out[k].text)
        StartOf(k) == SkipWhile(t, EndOf(k - 1), "s")
        OwnLine(q) ==
            \E p \in 0..q : (p = 0 \/ t[p] = 10) /\ \A j \in (p + 1)..q : IsSpace(t[j])
    IN  (arg.called /\ "rawText" \in DOMAIN arg) =>
            \A k \in 2..Len(out) :
                /\ Slice(t, StartOf(k), StartOf(k) + Len(out[k].text)) = out[k].text
                /\ OwnLine(StartOf(k))

\* A text that holds a keyword with its numeral in the middle of a line has
\* been split into several sections.
C24_Witness ==
    LET t == arg.rawText
        MidLine(q) ==
            /\ KeywordAt(t, q, HeaderKeywords, <<>>)
            /\ ~\E p \in 0..q : (p = 0 \/ t[p] = 10) /\ \A j \in (p + 1)..q : IsSpace(t[j])
    IN  /\ arg.called
        /\ "rawText" \in DOMAIN arg
        /\ Len(ret.out) > 2
        /\ \E q \in 1..Len(t) : MidLine(q)

\* C27: when splitIntoSections returns more than one section, the section
\* texts, in order, make up the input: the input is the first text, blanks, the
\* second text, blanks, and so on, with blanks only before the first and after
\* the last (nothing lost, repeated or moved), and every section after the
\* first begins where the input has a keyword with its numeral, as headerRe
\* asks.
C27_SectionsPartitionInput ==
    LET t == arg.rawText
        out == ret.out
        RECURSIVE EndOf(_)
        EndOf(k) ==
            IF k = 0 THEN 0 ELSE SkipWhile(t, EndOf(k - 1), "s") + Len(out[k].text)
        StartOf(k) == SkipWhile(t, EndOf(k - 1), "s")
    IN  (arg.called /\ "rawText" \in DOMAIN arg /\ Len(out) > 1) =>
            /\ \A k \in 1..Len(out) :
                  /\ out[k].text /= <<>>
                  /\ Slice(t, StartOf(k), EndOf(k)) = out[k].text
            /\ SkipWhile(t, EndOf(Len(out)), "s") = Len(t)
            /\ \A k \in 2..Len(out) : KeywordAt(t, StartOf(k), HeaderKeywords, <<>>)

\* A text with blanks before a line feed has been split into three sections or
\* more.
C27_Witness ==
    /\ arg.called
    /\ "rawText" \in DOMAIN arg
    /\ Len(ret.out) >= 3
    /\ \E k \in 1..(Len(arg.rawText) - 1) :
          arg.rawText[k] = 32 /\ arg.rawText[k + 1] = 10

\* C25: for every hit of a search response that the exact-phrase path made
\* (its section text, normalized, holds the normalized query, and its score is
\* 120 + the length of that phrase), the excerpt, normalized, holds the phrase.
C25_ExcerptHoldsPhrase ==
    (resp.op = "search" /\ resp.out.status = 200) =>
        LET phrase == normalize(QueryText(resp.query))
        IN  \A h \in 1..Len(resp.out.result) : \A k \in 1..Len(SECTIONS) :
                (/\ SECTIONS[k].id = resp.out.result[h].id
                 /\ resp.out.result[h].score = PhraseScore(phrase)
                 /\ IndexOf(normalize(SECTIONS[k].text), phrase) >= 0) =>
                    IndexOf(normalize(resp.out.result[h].excerpt), phrase) >= 0

\* C26: for a query that holds "stat'ya N" (in Cyrillic), answered without
\* cutting the list, a section is among the hits with the score 999 exactly
\* when its text has a line that begins, after blanks, with "Stat'ya" or
\* "STAT'YA", blanks, and the number N itself (the digits of N with no digit
\* after them); and the hits with the score 999 come before all the others.
C26_PriorityOnlyForArticleN ==
    LET q == QueryText(resp.query)
        cands == {p \in 0..(Len(q) - 1) : DigitAt(q, ArticlePrefixEnd(q, p))}
        d == ArticlePrefixEnd(q, SetMin(cands))
        N == Slice(q, d, SkipWhile(q, d, "d"))
        NumberIsN(text, r) == At(text, r, N) /\ ~DigitAt(text, r + Len(N))
        HeaderFrom(text, a) ==
            \E kw \in ArticleKeywords :
                At(text, a, kw) /\ NumberIsN(text, SkipWhile(text, a + Len(kw), "s"))
        HasHeader(text) ==
            \E p \in 0..Len(text) :
                (p = 0 \/ text[p] = 10) /\ HeaderFrom(text, SkipWhile(text, p, "s"))
        result == resp.out.result
    IN  (/\ resp.op = "search"
         /\ resp.out.status = 200
         /\ resp.limit = Num(51)
         /\ cands /= {}
         /\ Cardinality({SECTIONS[k].id : k \in 1..Len(SECTIONS)}) = Len(SECTIONS)) =>
            /\ \A k \in 1..Len(SECTIONS) :
                  HasHeader(SECTIONS[k].text) <=>
                      \E h \in 1..Len(result) :
                          result[h].id = SECTIONS[k].id /\ result[h].score = PriorityScore
            /\ \A i, j \in 1..Len(result) :
                  (i < j /\ result[j].score = PriorityScore) =>
                      result[i].score = PriorityScore

=============================================================================
